---- MODULE Spec2Model ----
(***************************************************************************)
(* Model of NKI_get_stage_coordinates_to_log_window.py: a Jython script    *)
(* that opens an image file with a Bio-Formats ImageReader bound to an     *)
(* OME-XML metadata store, takes the series count (or the nrTiles          *)
(* override), closes the reader, reads the plane-0 stage positions of      *)
(* every series from the store and logs them, X before Y.                  *)
(*                                                                         *)
(* One action per statement of the script; the two list comprehensions     *)
(* and the logging loop take one step per iteration (per IJ.log call), so  *)
(* that the order of store reads, log lines and the failure point are      *)
(* visible.  An uncaught exception moves the script to pc = "failed".      *)
(***************************************************************************)
EXTENDS Integers, Sequences, FiniteSets, TLC

\* ---- bounds of the model ----
MaxSeries == 3      \* a file holds 0..MaxSeries series
MaxPos    == 2      \* stage positions are the doubles 1.0 .. MaxPos.0
MaxNeg    == 2      \* nrTiles ranges over -MaxNeg .. MaxSeries + 1

VARIABLES
    file,         \* script parameter: the file behind the path (input)
    nrTiles,      \* script parameter: Integer nrTiles (input)
    pc,           \* the statement the script is about to execute
    reader,       \* state of the ImageReader handle
    storeBound,   \* reader.setMetadataStore(omeMeta) has been called
    omeMeta,      \* content of the metadata store: sequence of images
    seriesCount,  \* the script's seriesCount variable
    i,            \* index of the running comprehension / loop
    posX, posY,   \* the two parallel lists
    log,          \* lines written with IJ.log, in order
    reads,        \* accesses made to the metadata store, in order
    err           \* kind of the uncaught error, "none" while running

vars == <<file, nrTiles, pc, reader, storeBound, omeMeta, seriesCount, i,
          posX, posY, log, reads, err>>

\* ---- data ----
\* A position field of a plane: <<>> is a missing (null) field, <<v>> is a
\* Length object wrapping the number v.
Wrapped == {<<>>} \cup {<<v>> : v \in 1..MaxPos}

\* Plane 0 of one series (image) of the file.
Image == [x : Wrapped, y : Wrapped]

SeqUpTo(S, n) == UNION {[1..m -> S] : m \in 0..n}

\* The files the script may be given: an unreadable path, or a readable
\* container with 0..MaxSeries series.
Files == {[readable |-> FALSE, series |-> <<>>]}
         \cup [readable : {TRUE}, series : SeqUpTo(Image, MaxSeries)]

Terminal == {"done", "failed"}

\* ---- helpers (library calls and Python built-ins) ----
\* range(n): the indices 0..n-1, empty when n <= 0.
Range(n) == 0..(n - 1)

\* omeMeta.getPlanePositionX(i,0) raises when image i does not exist.
HasImage(meta, k) == k >= 0 /\ k < Len(meta)

getPlanePositionX(meta, k) == meta[k + 1].x

getPlanePositionY(meta, k) == meta[k + 1].y

\* .value() of a Length; calling it on a null field raises.
HasValue(w) == w # <<>>

value(w) == Head(w)

\* str() of a double holding a whole number: "1.0", "2.0", ...
str(v) == ToString(v) \o ".0"

\* ---- initial state ----
Init ==
    /\ file \in Files
    /\ nrTiles \in (-MaxNeg)..(MaxSeries + 1)
    /\ pc = "options"
    /\ reader = "none"
    /\ storeBound = FALSE
    /\ omeMeta = <<>>
    /\ seriesCount = 0
    /\ i = 0
    /\ posX = <<>>
    /\ posY = <<>>
    /\ log = <<>>
    /\ reads = <<>>
    /\ err = "none"

\* ---- statements ----
\* options = ImporterOptions(); options.setId(file): records the path only.
Options ==
    /\ pc = "options"
    /\ pc' = "newReader"
    /\ UNCHANGED <<file, nrTiles, reader, storeBound, omeMeta, seriesCount,
                   i, posX, posY, log, reads, err>>

\* reader = ImageReader()
NewReader ==
    /\ pc = "newReader"
    /\ reader' = "created"
    /\ pc' = "createMeta"
    /\ UNCHANGED <<file, nrTiles, storeBound, omeMeta, seriesCount, i,
                   posX, posY, log, reads, err>>

\* omeMeta = MetadataTools.createOMEXMLMetadata(): an empty store
CreateMeta ==
    /\ pc = "createMeta"
    /\ omeMeta' = <<>>
    /\ pc' = "setStore"
    /\ UNCHANGED <<file, nrTiles, reader, storeBound, seriesCount, i,
                   posX, posY, log, reads, err>>

\* reader.setMetadataStore(omeMeta)
SetMetadataStore ==
    /\ pc = "setStore"
    /\ storeBound' = TRUE
    /\ pc' = "setId"
    /\ UNCHANGED <<file, nrTiles, reader, omeMeta, seriesCount, i,
                   posX, posY, log, reads, err>>

\* Variant of SetId: an unreadable file is treated as an empty container.
SetId_NoFail ==
    /\ pc = "setId"
    /\ reader' = "open"
    /\ omeMeta' = IF storeBound THEN file.series ELSE omeMeta
    /\ pc' = "getSeriesCount"
    /\ UNCHANGED <<file, nrTiles, storeBound, seriesCount, i, posX, posY,
                   log, reads, err>>

\* reader.setId(file): opens the file and populates the bound store, or
\* raises.  When it raises, the format reader may or may not have opened
\* its stream already; the script calls nothing more on the reader.
SetId ==
    /\ pc = "setId"
    /\ IF file.readable
       THEN /\ reader' = "open"
            /\ omeMeta' = IF storeBound THEN file.series ELSE omeMeta
            /\ pc' = "getSeriesCount"
            /\ err' = err
       ELSE /\ reader' \in {"created", "open"}
            /\ omeMeta' = omeMeta
            /\ pc' = "failed"
            /\ err' = "open"
    /\ UNCHANGED <<file, nrTiles, storeBound, seriesCount, i, posX, posY,
                   log, reads>>

\* seriesCount = reader.getSeriesCount()
GetSeriesCount ==
    /\ pc = "getSeriesCount"
    /\ seriesCount' = Len(file.series)
    /\ pc' = "override"
    /\ UNCHANGED <<file, nrTiles, reader, storeBound, omeMeta, i, posX,
                   posY, log, reads, err>>

\* Variant of Override: the override is dropped, the native count is kept.
Override_Ignored ==
    /\ pc = "override"
    /\ seriesCount' = seriesCount
    /\ pc' = "close"
    /\ UNCHANGED <<file, nrTiles, reader, storeBound, omeMeta, i, posX,
                   posY, log, reads, err>>

\* Variant of Override: the override is clamped to the native count.
Override_Clamp ==
    /\ pc = "override"
    /\ seriesCount' = IF nrTiles # -1 /\ nrTiles < seriesCount
                      THEN nrTiles ELSE seriesCount
    /\ pc' = "close"
    /\ UNCHANGED <<file, nrTiles, reader, storeBound, omeMeta, i, posX,
                   posY, log, reads, err>>

\* Variant of Override: every negative nrTiles is taken as the sentinel.
Override_NegSentinel ==
    /\ pc = "override"
    /\ seriesCount' = IF nrTiles >= 0 THEN nrTiles ELSE seriesCount
    /\ pc' = "close"
    /\ UNCHANGED <<file, nrTiles, reader, storeBound, omeMeta, i, posX,
                   posY, log, reads, err>>

\* if nrTiles != -1: seriesCount = nrTiles
Override ==
    /\ pc = "override"
    /\ seriesCount' = IF nrTiles # -1 THEN nrTiles ELSE seriesCount
    /\ pc' = "close"
    /\ UNCHANGED <<file, nrTiles, reader, storeBound, omeMeta, i, posX,
                   posY, log, reads, err>>

\* Variant of Close: the reader is not closed before the store is read.
Close_Skipped ==
    /\ pc = "close"
    /\ i' = 0
    /\ pc' = "readX"
    /\ UNCHANGED <<file, nrTiles, reader, storeBound, omeMeta, seriesCount,
                   posX, posY, log, reads, err>>

\* reader.close()
Close ==
    /\ pc = "close"
    /\ reader' = "closed"
    /\ i' = 0
    /\ pc' = "readX"
    /\ UNCHANGED <<file, nrTiles, storeBound, omeMeta, seriesCount, posX,
                   posY, log, reads, err>>

\* Variant of ReadX: each X value is logged as soon as it is read.
ReadX_Streaming ==
    /\ pc = "readX"
    /\ IF i \in Range(seriesCount)
       THEN /\ reads' = Append(reads, <<"X", i>>)
            /\ IF ~HasImage(omeMeta, i)
               THEN pc' = "failed" /\ err' = "index" /\ UNCHANGED <<i, posX, log>>
               ELSE IF ~HasValue(getPlanePositionX(omeMeta, i))
               THEN pc' = "failed" /\ err' = "null" /\ UNCHANGED <<i, posX, log>>
               ELSE /\ posX' = Append(posX, value(getPlanePositionX(omeMeta, i)))
                    /\ log' = Append(log, str(value(getPlanePositionX(omeMeta, i))))
                    /\ i' = i + 1
                    /\ UNCHANGED <<pc, err>>
       ELSE /\ pc' = "readY"
            /\ i' = 0
            /\ UNCHANGED <<posX, reads, err, log>>
    /\ UNCHANGED <<file, nrTiles, reader, storeBound, omeMeta, seriesCount,
                   posY>>

\* Variant of ReadX: a failing read is swallowed and the script hangs on it.
ReadX_Retry ==
    /\ pc = "readX"
    /\ IF i \in Range(seriesCount)
       THEN IF HasImage(omeMeta, i) /\ HasValue(getPlanePositionX(omeMeta, i))
            THEN /\ reads' = Append(reads, <<"X", i>>)
                 /\ posX' = Append(posX, value(getPlanePositionX(omeMeta, i)))
                 /\ i' = i + 1
                 /\ UNCHANGED <<pc, err>>
            ELSE UNCHANGED <<pc, err, i, posX, reads>>
       ELSE /\ pc' = "readY"
            /\ i' = 0
            /\ UNCHANGED <<posX, reads, err>>
    /\ UNCHANGED <<file, nrTiles, reader, storeBound, omeMeta, seriesCount,
                   posY, log>>

\* posX = [(omeMeta.getPlanePositionX(i,0).value()) for i in range(seriesCount)]
\* one iteration, or the end of the comprehension
ReadX ==
    /\ pc = "readX"
    /\ IF i \in Range(seriesCount)
       THEN /\ reads' = Append(reads, <<"X", i>>)
            /\ IF ~HasImage(omeMeta, i)
               THEN pc' = "failed" /\ err' = "index" /\ UNCHANGED <<i, posX>>
               ELSE IF ~HasValue(getPlanePositionX(omeMeta, i))
               THEN pc' = "failed" /\ err' = "null" /\ UNCHANGED <<i, posX>>
               ELSE /\ posX' = Append(posX, value(getPlanePositionX(omeMeta, i)))
                    /\ i' = i + 1
                    /\ UNCHANGED <<pc, err>>
       ELSE /\ pc' = "readY"
            /\ i' = 0
            /\ UNCHANGED <<posX, reads, err>>
    /\ UNCHANGED <<file, nrTiles, reader, storeBound, omeMeta, seriesCount,
                   posY, log>>

\* Variant of ReadY: a missing Y field is replaced by the default 0.
ReadY_Default ==
    /\ pc = "readY"
    /\ IF i \in Range(seriesCount)
       THEN /\ reads' = Append(reads, <<"Y", i>>)
            /\ IF ~HasImage(omeMeta, i)
               THEN pc' = "failed" /\ err' = "index" /\ UNCHANGED <<i, posY>>
               ELSE /\ posY' = Append(posY,
                                 IF HasValue(getPlanePositionY(omeMeta, i))
                                 THEN value(getPlanePositionY(omeMeta, i))
                                 ELSE 0)
                    /\ i' = i + 1
                    /\ UNCHANGED <<pc, err>>
       ELSE /\ pc' = "logX"
            /\ i' = 0
            /\ UNCHANGED <<posY, reads, err>>
    /\ UNCHANGED <<file, nrTiles, reader, storeBound, omeMeta, seriesCount,
                   posX, log>>

\* posY = [(omeMeta.getPlanePositionY(i,0).value()) for i in range(seriesCount)]
ReadY ==
    /\ pc = "readY"
    /\ IF i \in Range(seriesCount)
       THEN /\ reads' = Append(reads, <<"Y", i>>)
            /\ IF ~HasImage(omeMeta, i)
               THEN pc' = "failed" /\ err' = "index" /\ UNCHANGED <<i, posY>>
               ELSE IF ~HasValue(getPlanePositionY(omeMeta, i))
               THEN pc' = "failed" /\ err' = "null" /\ UNCHANGED <<i, posY>>
               ELSE /\ posY' = Append(posY, value(getPlanePositionY(omeMeta, i)))
                    /\ i' = i + 1
                    /\ UNCHANGED <<pc, err>>
       ELSE /\ pc' = "logX"
            /\ i' = 0
            /\ UNCHANGED <<posY, reads, err>>
    /\ UNCHANGED <<file, nrTiles, reader, storeBound, omeMeta, seriesCount,
                   posX, log>>

\* Variant of LogX: the Y value is logged in the place of the X value.
LogX_Swapped ==
    /\ pc = "logX"
    /\ IF i \in Range(seriesCount)
       THEN log' = Append(log, str(posY[i + 1])) /\ pc' = "logY"
       ELSE log' = log /\ pc' = "done"
    /\ UNCHANGED <<file, nrTiles, reader, storeBound, omeMeta, seriesCount,
                   i, posX, posY, reads, err>>

\* for i in range(seriesCount): IJ.log(str(posX[i])) -- or the loop's end
LogX ==
    /\ pc = "logX"
    /\ IF i \in Range(seriesCount)
       THEN log' = Append(log, str(posX[i + 1])) /\ pc' = "logY"
       ELSE log' = log /\ pc' = "done"
    /\ UNCHANGED <<file, nrTiles, reader, storeBound, omeMeta, seriesCount,
                   i, posX, posY, reads, err>>

\* IJ.log(str(posY[i])), then the next iteration
LogY ==
    /\ pc = "logY"
    /\ log' = Append(log, str(posY[i + 1]))
    /\ i' = i + 1
    /\ pc' = "logX"
    /\ UNCHANGED <<file, nrTiles, reader, storeBound, omeMeta, seriesCount,
                   posX, posY, reads, err>>

Next ==
    \/ Options
    \/ NewReader
    \/ CreateMeta
    \/ SetMetadataStore
    \/ SetId
    \/ GetSeriesCount
    \/ Override
    \/ Close
    \/ ReadX
    \/ ReadY
    \/ LogX
    \/ LogY

Spec == Init /\ [][Next]_vars

\* The script is a single thread that runs each statement in turn: a
\* statement that can execute does execute.
FairSpec == Spec /\ WF_vars(Next)

TypeOK ==
    /\ file \in Files
    /\ pc \in {"options", "newReader", "createMeta", "setStore", "setId",
               "getSeriesCount", "override", "close", "readX", "readY",
               "logX", "logY", "done", "failed"}
    /\ reader \in {"none", "created", "open", "closed"}
    /\ err \in {"none", "open", "index", "null"}
    /\ i \in 0..(MaxSeries + 1)
\* ---- vocabulary of the properties ----
\* N: the true series count of the file.
N == Len(file.series)

\* Series j (0-based) of the file has both an X and a Y position on plane 0.
HasBoth(j) ==
    /\ HasImage(file.series, j)
    /\ file.series[j + 1].x # <<>>
    /\ file.series[j + 1].y # <<>>

\* The first k series all have both positions.
Complete(k) == \A j \in Range(k) : HasBoth(j)

\* The 2k lines posX[0], posY[0], ..., posX[k-1], posY[k-1] of a file whose
\* first k series are complete.
ExpectedLog(k) ==
    [j \in 1..(2 * k) |->
        IF j % 2 = 1 THEN str(file.series[(j + 1) \div 2].x[1])
                     ELSE str(file.series[j \div 2].y[1])]

IsPrefix(s, t) == Len(s) <= Len(t) /\ s = SubSeq(t, 1, Len(s))

\* The series indices the script has asked the store for.
ReadIndices == {reads[j][2] : j \in 1..Len(reads)}

\* The effective series count: the reader's count, or nrTiles when given.
EffectiveCount == IF nrTiles # -1 THEN nrTiles ELSE N

\* ---- properties ----

\* C1: for a readable file whose N series all have an X and a Y position,
\* a run with nrTiles = -1 never fails, logs nothing but the expected
\* lines, and ends with the log posX[0], posY[0], ..., posX[N-1], posY[N-1].
C1_FullLog ==
    (file.readable /\ nrTiles = -1 /\ Complete(N)) =>
        /\ pc # "failed"
        /\ IsPrefix(log, ExpectedLog(N))
        /\ (pc = "done" => log = ExpectedLog(N) /\ Len(log) = 2 * N)

C1_Witness ==
    /\ pc = "done"
    /\ file.readable /\ nrTiles = -1 /\ Complete(N)
    /\ N >= 2
    /\ file.series[1].x # file.series[1].y
    /\ Len(log) = 2 * N

\* C2 as stated: for a readable file and nrTiles = k with 0 <= k <= N, the
\* run produces exactly 2k log lines and reads only series 0..k-1.
C2_Original ==
    (file.readable /\ nrTiles \in 0..N /\ pc \in Terminal) =>
        /\ Len(log) = 2 * nrTiles
        /\ ReadIndices \subseteq Range(nrTiles)

\* C2 amended: for a readable file and nrTiles = k with 0 <= k <= N, series
\* k..N-1 are never read and never logged; and when the first k series all
\* have both positions the run never fails and ends with exactly the 2k
\* lines of series 0..k-1, whatever is missing in the series >= k.
C2_FirstK ==
    (file.readable /\ nrTiles \in 0..N) =>
        /\ ReadIndices \subseteq Range(nrTiles)
        /\ Len(log) <= 2 * nrTiles
        /\ Complete(nrTiles) =>
              /\ pc # "failed"
              /\ IsPrefix(log, ExpectedLog(nrTiles))
              /\ (pc = "done" => log = ExpectedLog(nrTiles)
                                 /\ Len(log) = 2 * nrTiles)

C2_Witness ==
    /\ pc = "done"
    /\ file.readable /\ nrTiles >= 1 /\ nrTiles < N
    /\ Complete(nrTiles)
    /\ ~HasBoth(nrTiles)
    /\ Len(log) = 2 * nrTiles

C4_UnreadableFails ==
    /\ ~file.readable =>
          /\ log = <<>> /\ reads = <<>>
          /\ pc # "done"
          /\ (pc \in Terminal => pc = "failed" /\ err = "open")
          /\ pc \notin {"getSeriesCount", "override", "close", "readX",
                        "readY", "logX", "logY"}
    /\ (log # <<>> \/ pc = "done") => file.readable /\ reader = "closed"

C4_Witness ==
    /\ pc = "failed" /\ err = "open"
    /\ ~file.readable
    /\ nrTiles = 0

\* C5: when some series of the effective range lacks its X or its Y position
\* (or does not exist), the run never completes, it stops only by failing,
\* and the lists hold nothing but values taken from the store.
C5_MissingFails ==
    /\ (\E j \in Range(EffectiveCount) : ~HasBoth(j)) =>
          /\ pc # "done"
          /\ (pc \in Terminal => pc = "failed")
    /\ \A j \in 1..Len(posX) : <<posX[j]>> = file.series[j].x
    /\ \A j \in 1..Len(posY) : <<posY[j]>> = file.series[j].y

C5_Witness ==
    /\ pc = "failed" /\ err = "null"
    /\ file.readable
    /\ reads[Len(reads)][1] = "Y"
    /\ Len(posX) = EffectiveCount
    /\ EffectiveCount >= 1

\* C6: every read of the metadata store and every log line happens with the
\* reader already closed, and the series count is taken from the reader
\* while it is open.
C6_ClosedBeforeReads ==
    [][/\ (reads' # reads \/ log' # log) => reader = "closed"
       /\ (pc = "getSeriesCount" /\ pc' # pc) => reader = "open"]_vars

C6_Witness ==
    /\ pc = "done"
    /\ Len(reads) >= 2
    /\ log # <<>>
    /\ reader = "closed"

\* C7: in every terminal state, completed or failed, the reader has been
\* released.
C7_ReleasedAtExit ==
    pc \in Terminal => reader = "closed"

\* C8: every run reaches the completed or the failed state; an error moves
\* the script to the failed state at once, and nothing is read or logged
\* after it.
C8_Terminates ==
    /\ <>(pc \in Terminal)
    /\ [][/\ err' # "none" => pc' = "failed"
          /\ err # "none" => reads' = reads /\ log' = log]_vars

C8_Witness ==
    /\ pc = "failed"
    /\ err = "null"
    /\ Len(reads) >= 2

\* C9: all X reads and then all Y reads come before the first log line: a
\* failed run has an empty log, and a non-empty log means that every read
\* of the effective range was made, X first, and succeeded.
C9_AllOrNothing ==
    /\ pc = "failed" => log = <<>>
    /\ log # <<>> =>
          /\ err = "none"
          /\ Len(posX) = seriesCount /\ Len(posY) = seriesCount
          /\ reads = [j \in 1..(2 * seriesCount) |->
                        IF j <= seriesCount
                        THEN <<"X", j - 1>>
                        ELSE <<"Y", j - seriesCount - 1>>]

C9_Witness ==
    /\ pc = "failed"
    /\ err \in {"index", "null"}
    /\ Len(posX) >= 1
    /\ log = <<>>

\* C10: for a readable file, nrTiles < -1 or nrTiles = 0 replaces the series
\* count, nothing is read or logged, and the run never fails.
C10_NegativeOverride ==
    (file.readable /\ (nrTiles < -1 \/ nrTiles = 0)) =>
        /\ pc # "failed"
        /\ reads = <<>> /\ log = <<>>
        /\ (pc \in {"close", "readX", "readY", "logX", "logY", "done"}
              => seriesCount = nrTiles)

C10_Witness ==
    /\ pc = "done"
    /\ file.readable /\ nrTiles < -1
    /\ N >= 1
    /\ seriesCount = nrTiles
    /\ log = <<>>
====
